---------------------------- MODULE Spec2Model ----------------------------
(***************************************************************************)
(* memon: process-tree memory analyser (src/memon.py).                     *)
(*                                                                         *)
(* One analysis pass of MemoryMonitor.analyze_process_tree as a state      *)
(* machine: the process listing is scanned into the registry               *)
(* (self.processes) and matched against the query, the roots are selected, *)
(* and for every root the tree is built, ranked and printed.               *)
(*                                                                         *)
(* Strings are sequences of one-character strings. Object references       *)
(* (ProcessInfo) are the pids that key the registry. A Python dict is a    *)
(* function together with the sequence of its keys in insertion order.     *)
(* Optional[ProcessInfo] is <<>> (None) or <<pid>>.                        *)
(*                                                                         *)
(* Four specifications share the variables:                                *)
(*   Spec        one pass of analyze_process_tree of src/memon.py;         *)
(*   SpecRepeat  several passes on one MemoryMonitor;                      *)
(*   SpecCalls   direct calls of the matcher, of the ps parser, of         *)
(*               _extract_process_name, of format_memory and               *)
(*               get_memory_color and of memon-qwen's                      *)
(*               _find_processes_by_name on drawn arguments;               *)
(*   SpecQwen    main() of memon-qwen (src/memon-qwen/src/memon/main.py),  *)
(*               single run and watch loop, over a live process table.     *)
(***************************************************************************)
EXTENDS Integers, Sequences, FiniteSets, TLC

(***************************************************************************)
(* Bounds of the model.                                                    *)
(***************************************************************************)
\* Largest pid, and largest number of records, of a snapshot.
MaxProcs == 3
\* Longest generated name and query given to the matcher.
MaxNameLen == 2
\* Most lines of a ps listing, the header aside.
MaxLines == 3
\* Longest generated command line.
MaxCommandLen == 4
\* Most analyze_process_tree calls made on one monitor.
MaxPasses == 2

(***************************************************************************)
(* Program constants.                                                      *)
(***************************************************************************)
MB == 1024 * 1024
\* Column width to which ps truncates command names.
TruncLen == 15
\* Length of the executable suffixes .exe .app .bin .run.
ExtLen == 4
\* pid of init/launchd, always treated as "parent outside the match".
InitPid == 1
\* Number of entries of the top-consumer list.
TopN == 3

(***************************************************************************)
(* Generic helpers on sequences and sets.                                  *)
(***************************************************************************)
Min(a, b) == IF a <= b THEN a ELSE b

Range(s) == {s[k] : k \in DOMAIN s}

\* max() of a non-empty collection of integers.
SetMax(S) == CHOOSE y \in S : \A z \in S : z <= y

RECURSIVE SumSeq(_)
SumSeq(s) == IF s = <<>> THEN 0 ELSE Head(s) + SumSeq(Tail(s))

\* Ascending / descending enumeration of a finite set of integers.
RECURSIVE AscSeq(_)
AscSeq(S) ==
    IF S = {} THEN <<>>
    ELSE LET m == CHOOSE y \in S : \A z \in S : y <= z
         IN  <<m>> \o AscSeq(S \ {m})

RECURSIVE Reverse(_)
Reverse(s) == IF s = <<>> THEN <<>> ELSE Reverse(Tail(s)) \o <<Head(s)>>

(***************************************************************************)
(* Python string operations used by the matcher.                           *)
(***************************************************************************)
UpperChars == <<"A","B","C","D","E","F","G","H","I","J","K","L","M",
                "N","O","P","Q","R","S","T","U","V","W","X","Y","Z">>
LowerChars == <<"a","b","c","d","e","f","g","h","i","j","k","l","m",
                "n","o","p","q","r","s","t","u","v","w","x","y","z">>

\* str.lower() on one character.
LowerChar(c) ==
    IF \E k \in DOMAIN UpperChars : UpperChars[k] = c
    THEN LowerChars[CHOOSE k \in DOMAIN UpperChars : UpperChars[k] = c]
    ELSE c

\* str.lower()
lower(s) == [k \in DOMAIN s |-> LowerChar(s[k])]

\* str.startswith(prefix)
startswith(s, prefix) ==
    /\ Len(prefix) <= Len(s)
    /\ SubSeq(s, 1, Len(prefix)) = prefix

\* str.endswith(suffix)
endswith(s, suffix) ==
    /\ Len(suffix) <= Len(s)
    /\ SubSeq(s, Len(s) - Len(suffix) + 1, Len(s)) = suffix

\* c in s
contains(s, c) == \E k \in DOMAIN s : s[k] = c

\* s.split(c)[-1]: the text after the last occurrence of c (all of s if none).
split_last(s, c) ==
    IF contains(s, c)
    THEN LET k == CHOOSE j \in DOMAIN s :
                      s[j] = c /\ \A m \in DOMAIN s : s[m] = c => m <= j
         IN  SubSeq(s, k + 1, Len(s))
    ELSE s

\* s.replace(c, '')
remove_char(s, c) == SelectSeq(s, LAMBDA x : x # c)

\* s[:n]
prefix_slice(s, n) == SubSeq(s, 1, Min(n, Len(s)))

\* s[:-n] for n <= len(s)
drop_last(s, n) == SubSeq(s, 1, Len(s) - n)

ExeSuffixes == { <<".","e","x","e">>, <<".","a","p","p">>,
                 <<".","b","i","n">>, <<".","r","u","n">> }

has_exe_suffix(s) == \E suf \in ExeSuffixes : endswith(s, suf)

(***************************************************************************)
(* MemoryMonitor._is_exact_match / _is_app_name_match                      *)
(***************************************************************************)
\* The same without the two tests that accept a name shorter than the query.
_is_exact_match_untruncated(proc_name, target_name) ==
    LET proc_basename   == split_last(proc_name, "/")
        target_basename == split_last(target_name, "/")
        base_proc   == IF has_exe_suffix(proc_basename)
                       THEN drop_last(proc_basename, ExtLen) ELSE proc_basename
        base_target == IF has_exe_suffix(target_basename)
                       THEN drop_last(target_basename, ExtLen) ELSE target_basename
    IN  \/ /\ Len(target_name) > TruncLen
           /\ startswith(proc_name, prefix_slice(target_name, TruncLen))
        \/ proc_name = target_name
        \/ startswith(proc_name, target_name)
        \/ base_proc = base_target

_is_exact_match(proc_name, target_name) ==
    LET proc_basename   == split_last(proc_name, "/")
        target_basename == split_last(target_name, "/")
        base_proc   == IF has_exe_suffix(proc_basename)
                       THEN drop_last(proc_basename, ExtLen) ELSE proc_basename
        base_target == IF has_exe_suffix(target_basename)
                       THEN drop_last(target_basename, ExtLen) ELSE target_basename
    IN  \/ Len(proc_name) >= TruncLen /\ startswith(target_name, proc_name)
        \/ /\ Len(target_name) > TruncLen
           /\ startswith(proc_name, prefix_slice(target_name, TruncLen))
        \/ proc_name = target_name
        \/ startswith(target_name, proc_name)
        \/ startswith(proc_name, target_name)
        \/ base_proc = base_target

_is_app_name_match(proc_name, target_name) ==
    \/ /\ endswith(target_name, <<".","a","p","p">>)
       /\ proc_name = lower(drop_last(target_name, ExtLen))
    \/ /\ contains(target_name, " ")
       /\ proc_name = lower(remove_char(target_name, " "))

\* The test of get_processes_by_name on one record's name.
name_matches(name, process_name) ==
    LET proc_name   == lower(name)
        target_name == lower(process_name)
    IN  \/ _is_exact_match(proc_name, target_name)
        \/ _is_app_name_match(proc_name, target_name)

(***************************************************************************)
(* ProcessInfo and the registry self.processes.                            *)
(***************************************************************************)
\* ProcessInfo.__init__
ProcessInfo(pid, name, rss, vsz, parent_pid) ==
    [ pid |-> pid, name |-> name, rss |-> rss, vsz |-> vsz,
      parent_pid |-> parent_pid, children |-> <<>>,
      is_max_memory |-> FALSE,
      is_second_max_memory |-> FALSE,
      is_third_max_memory |-> FALSE ]

\* MemoryMonitor.__init__: self.processes = {}
EmptyRegistry == [ keys |-> <<>>, info |-> <<>> ]

\* pid in self.processes
InRegistry(reg, pid) == pid \in Range(reg.keys)

\* self.processes[pid] = value (a new key goes to the end of the dict).
DictSet(reg, pid, value) ==
    [ keys |-> IF InRegistry(reg, pid) THEN reg.keys ELSE Append(reg.keys, pid),
      info |-> [ p \in Range(reg.keys) \cup {pid} |->
                   IF p = pid THEN value ELSE reg.info[p] ] ]

\* MemoryMonitor._add_process_info
_add_process_info(reg, proc) ==
    DictSet(reg, proc.pid,
            ProcessInfo(proc.pid, proc.name, proc.rss, proc.vsz, proc.ppid))

\* MemoryMonitor.get_processes_by_name: every scanned record enters the
\* registry, the pids of the matching ones are collected in scan order.
RECURSIVE scan_records(_, _, _, _)
scan_records(reg, matching, procs, process_name) ==
    IF procs = <<>> THEN [ processes |-> reg, matching_pids |-> matching ]
    ELSE LET proc == Head(procs)
         IN  scan_records(_add_process_info(reg, proc),
                          IF name_matches(proc.name, process_name)
                          THEN Append(matching, proc.pid) ELSE matching,
                          Tail(procs), process_name)

get_processes_by_name(reg, procs, process_name) ==
    scan_records(reg, <<>>, procs, process_name)

\* analyze_process_tree, "Reset memory flags for all processes".
reset_memory_flags(reg) ==
    [ reg EXCEPT !.info =
        [ p \in DOMAIN reg.info |->
            [ reg.info[p] EXCEPT !.is_max_memory = FALSE,
                                 !.is_second_max_memory = FALSE,
                                 !.is_third_max_memory = FALSE ] ] ]

(***************************************************************************)
(* MemoryMonitor.build_process_tree                                        *)
(***************************************************************************)
\* "Clear existing children relationships to avoid duplicates"
\* clear_children that clears nothing.
clear_children_skipped(info) == info

clear_children(info) ==
    [ p \in DOMAIN info |-> [ info[p] EXCEPT !.children = <<>> ] ]

\* add_child that keeps only the first child of a node.
add_child_first_only(info, parent, child) ==
    IF info[parent].children = <<>>
    THEN [ info EXCEPT ![parent].children = Append(@, child) ]
    ELSE info

\* ProcessInfo.add_child
add_child(info, parent, child) ==
    [ info EXCEPT ![parent].children = Append(@, child) ]

\* The linking loop, over the dict's items in insertion order.
RECURSIVE link_children(_, _)
link_children(info, keys) ==
    IF keys = <<>> THEN info
    ELSE LET pid == Head(keys)
             parent == info[pid].parent_pid
         IN  link_children(IF parent \in DOMAIN info
                           THEN add_child(info, parent, pid) ELSE info,
                           Tail(keys))

\* build_process_tree that clears the child lists before it looks for the
\* root.
build_process_tree_clearing_first(reg, root_pid) ==
    IF ~InRegistry(reg, root_pid)
    THEN [ processes |-> [ reg EXCEPT !.info = clear_children(reg.info) ],
           result |-> <<>> ]
    ELSE [ processes |->
             [ reg EXCEPT !.info = link_children(clear_children(reg.info), reg.keys) ],
           result |-> <<root_pid>> ]

build_process_tree(reg, root_pid) ==
    IF ~InRegistry(reg, root_pid)
    THEN [ processes |-> reg, result |-> <<>> ]
    ELSE [ processes |->
             [ reg EXCEPT !.info = link_children(clear_children(reg.info), reg.keys) ],
           result |-> <<root_pid>> ]

(***************************************************************************)
(* MemoryMonitor.find_root_processes                                       *)
(***************************************************************************)
\* is_root without the init clause.
is_root_parent_only(reg, matching_pids, pid) ==
    /\ InRegistry(reg, pid)
    /\ \/ reg.info[pid].parent_pid \notin Range(matching_pids)
       \/ ~InRegistry(reg, reg.info[pid].parent_pid)

\* is_root with the init clause alone.
is_root_init_only(reg, matching_pids, pid) ==
    /\ InRegistry(reg, pid)
    /\ reg.info[pid].parent_pid = InitPid

\* is_root that accepts only a pid whose parent was not scanned.
is_root_orphan_only(reg, matching_pids, pid) ==
    /\ InRegistry(reg, pid)
    /\ ~InRegistry(reg, reg.info[pid].parent_pid)

is_root(reg, matching_pids, pid) ==
    /\ InRegistry(reg, pid)
    /\ \/ reg.info[pid].parent_pid \notin Range(matching_pids)
       \/ reg.info[pid].parent_pid = InitPid
       \/ ~InRegistry(reg, reg.info[pid].parent_pid)

find_root_processes(reg, matching_pids) ==
    SelectSeq(matching_pids, LAMBDA pid : is_root(reg, matching_pids, pid))

(***************************************************************************)
(* The tree walks of the aggregator. info is the registry's pid -> node    *)
(* map; a node's children are the pids of its child list.                  *)
(***************************************************************************)
\* The nodes reachable from the pids of `frontier` by child links.
RECURSIVE reachable(_, _, _)
reachable(info, frontier, seen) ==
    IF frontier \subseteq seen THEN seen
    ELSE reachable(info,
                   UNION { Range(info[p].children) : p \in frontier \ seen },
                   seen \cup frontier)

tree_nodes(info, root) == reachable(info, {root}, {})

\* A recursive walk from root never returns when a node below root is its
\* own descendant; CPython then raises RecursionError at its recursion limit.
recursion_overflows(info, root) ==
    \E p \in tree_nodes(info, root) :
        p \in reachable(info, Range(info[p].children), {})

\* _count_processes that counts the root and its direct children only.
_count_processes_shallow(info, root) == 1 + Len(info[root].children)

RECURSIVE _count_processes(_, _)
_count_processes(info, root) ==
    LET children == info[root].children
    IN  1 + SumSeq([ k \in DOMAIN children |->
                        _count_processes(info, children[k]) ])

RECURSIVE _calculate_total_memory(_, _)
_calculate_total_memory(info, root) ==
    LET children == info[root].children
    IN  info[root].rss
        + SumSeq([ k \in DOMAIN children |->
                     _calculate_total_memory(info, children[k]) ])

\* list.extend over a sequence of lists.
RECURSIVE Flatten(_)
Flatten(ss) == IF ss = <<>> THEN <<>> ELSE Head(ss) \o Flatten(Tail(ss))

RECURSIVE _collect_all_rss_in_tree(_, _)
_collect_all_rss_in_tree(info, root) ==
    LET children == info[root].children
    IN  <<info[root].rss>>
        \o Flatten([ k \in DOMAIN children |->
                       _collect_all_rss_in_tree(info, children[k]) ])

\* Returns the list `processes` after the walk has appended to it.
RECURSIVE _collect_all_processes_in_tree(_, _, _)
RECURSIVE collect_children(_, _, _)
_collect_all_processes_in_tree(info, root, processes) ==
    collect_children(info, info[root].children, Append(processes, root))

collect_children(info, children, processes) ==
    IF children = <<>> THEN processes
    ELSE collect_children(info, Tail(children),
             _collect_all_processes_in_tree(info, Head(children), processes))

\* mark_node without the "> 0" guards of the second and third rank.
mark_node_unguarded(node, max_rss, second_max_rss, third_max_rss) ==
    IF node.rss = max_rss
    THEN [ node EXCEPT !.is_max_memory = TRUE ]
    ELSE IF node.rss = second_max_rss
    THEN [ node EXCEPT !.is_second_max_memory = TRUE ]
    ELSE IF node.rss = third_max_rss
    THEN [ node EXCEPT !.is_third_max_memory = TRUE ]
    ELSE node

\* mark_node without its two elif branches.
mark_node_max_only(node, max_rss, second_max_rss, third_max_rss) ==
    IF node.rss = max_rss
    THEN [ node EXCEPT !.is_max_memory = TRUE ]
    ELSE node

\* The if/elif chain of _mark_memory_highlights_in_tree on one node.
mark_node(node, max_rss, second_max_rss, third_max_rss) ==
    IF node.rss = max_rss
    THEN [ node EXCEPT !.is_max_memory = TRUE ]
    ELSE IF node.rss = second_max_rss /\ second_max_rss > 0
    THEN [ node EXCEPT !.is_second_max_memory = TRUE ]
    ELSE IF node.rss = third_max_rss /\ third_max_rss > 0
    THEN [ node EXCEPT !.is_third_max_memory = TRUE ]
    ELSE node

\* Returns the registry's nodes after the walk has set the flags.
RECURSIVE _mark_memory_highlights_in_tree(_, _, _, _, _)
RECURSIVE mark_children(_, _, _, _, _)
_mark_memory_highlights_in_tree(info, root, max_rss, second_max_rss, third_max_rss) ==
    mark_children(
        [ info EXCEPT ![root] = mark_node(@, max_rss, second_max_rss, third_max_rss) ],
        info[root].children, max_rss, second_max_rss, third_max_rss)

mark_children(info, children, max_rss, second_max_rss, third_max_rss) ==
    IF children = <<>> THEN info
    ELSE mark_children(
             _mark_memory_highlights_in_tree(info, Head(children),
                                             max_rss, second_max_rss, third_max_rss),
             Tail(children), max_rss, second_max_rss, third_max_rss)

(***************************************************************************)
(* analyze_process_tree: max, second max and third max of one tree.        *)
(***************************************************************************)
\* max(values) if values else 0
max_or_zero(values) == IF values = <<>> THEN 0 ELSE SetMax(Range(values))

tree_max_rss_of(all_rss_in_tree) == SetMax(Range(all_rss_in_tree))

filtered_rss_of(all_rss_in_tree) ==
    SelectSeq(all_rss_in_tree, LAMBDA rss : rss # tree_max_rss_of(all_rss_in_tree))

tree_second_max_rss_of(all_rss_in_tree) ==
    max_or_zero(filtered_rss_of(all_rss_in_tree))

tree_third_max_rss_of(all_rss_in_tree) ==
    LET filtered_rss == filtered_rss_of(all_rss_in_tree)
        second == tree_second_max_rss_of(all_rss_in_tree)
    IN  IF Len(filtered_rss) > 0
        THEN max_or_zero(SelectSeq(filtered_rss, LAMBDA rss : rss # second))
        ELSE 0

(***************************************************************************)
(* _collect_top_memory_processes_with_percentages                          *)
(***************************************************************************)
\* list.sort(key=rss, reverse=True): a stable sort, so nodes of equal rss keep
\* their order. The first element of the result is the first one of largest
\* rss; the rest is the sort of the others.
\* A descending sort that reverses the order of nodes of equal rss (an
\* ascending sort followed by list.reverse()).
RECURSIVE sort_by_rss_desc_unstable(_, _)
sort_by_rss_desc_unstable(info, ps) ==
    IF ps = <<>> THEN <<>>
    ELSE LET k == CHOOSE j \in DOMAIN ps :
                      /\ \A m \in DOMAIN ps : info[ps[m]].rss <= info[ps[j]].rss
                      /\ \A m \in (j + 1)..Len(ps) : info[ps[m]].rss < info[ps[j]].rss
         IN  <<ps[k]>> \o sort_by_rss_desc_unstable(info,
                 SubSeq(ps, 1, k - 1) \o SubSeq(ps, k + 1, Len(ps)))

RECURSIVE sort_by_rss_desc(_, _)
sort_by_rss_desc(info, ps) ==
    IF ps = <<>> THEN <<>>
    ELSE LET k == CHOOSE j \in DOMAIN ps :
                      /\ \A m \in DOMAIN ps : info[ps[m]].rss <= info[ps[j]].rss
                      /\ \A m \in 1..(j - 1) : info[ps[m]].rss < info[ps[j]].rss
         IN  <<ps[k]>> \o sort_by_rss_desc(info,
                 SubSeq(ps, 1, k - 1) \o SubSeq(ps, k + 1, Len(ps)))

\* (process.rss / total_memory) * 100 as the exact ratio num/den of a
\* hundredth, 0.0 as 0/1.
percentage_of(rss, total_memory) ==
    IF total_memory > 0
    THEN [ num |-> rss, den |-> total_memory ]
    ELSE [ num |-> 0, den |-> 1 ]

_collect_top_memory_processes_with_percentages(info, root, total_memory) ==
    LET all_processes == sort_by_rss_desc(info,
                             _collect_all_processes_in_tree(info, root, <<>>))
        top == prefix_slice(all_processes, TopN)
    IN  [ k \in DOMAIN top |->
            [ process    |-> top[k],
              percentage |-> percentage_of(info[top[k]].rss, total_memory) ] ]

(***************************************************************************)
(* print_tree: the lines written for one tree, in the order written. A     *)
(* line keeps what the renderer reads from the node: pid, depth, memory,   *)
(* the three flags handed to the colour choice, the medal, the percentage. *)
(***************************************************************************)
rank_emoji_of(node) ==
    IF node.is_max_memory THEN "first"
    ELSE IF node.is_second_max_memory THEN "second"
    ELSE IF node.is_third_max_memory THEN "third"
    ELSE ""

print_line(node, level, total_memory) ==
    [ pid |-> node.pid, level |-> level, rss |-> node.rss,
      is_max_memory |-> node.is_max_memory,
      is_second_max_memory |-> node.is_second_max_memory,
      is_third_max_memory |-> node.is_third_max_memory,
      rank_emoji |-> rank_emoji_of(node),
      percentage |-> IF total_memory > 0
                     THEN <<percentage_of(node.rss, total_memory)>> ELSE <<>> ]

RECURSIVE print_tree(_, _, _, _)
print_tree(info, root, level, total_memory) ==
    LET children == info[root].children
    IN  <<print_line(info[root], level, total_memory)>>
        \o Flatten([ k \in DOMAIN children |->
                       print_tree(info, children[k], level + 1, total_memory) ])

(***************************************************************************)
(* The inputs of a pass: the query and the snapshot the process source     *)
(* delivers, a list of records {pid, ppid, name, rss, vsz} with unique     *)
(* pids. A parent pid may be 0, a pid of the snapshot (its own included)   *)
(* or a pid that is not in the snapshot.                                   *)
(***************************************************************************)
RootName  == <<"r","o","o","t">>
OtherName == <<"s","h">>
NameSet   == { RootName, OtherName }
Query     == RootName

PidRange    == 1..MaxProcs
ParentRange == 0..MaxProcs
RssSet      == { 0, 10 * MB, 50 * MB, 100 * MB }

Record(pid, ppid, name, rss) ==
    [ pid |-> pid, ppid |-> ppid, name |-> name, rss |-> rss, vsz |-> 2 * rss ]

\* The resident memory given to a pid where the shape of the table varies.
RssByPid(pid) ==
    CASE pid = 1 -> 10 * MB
      [] pid = 2 -> 50 * MB
      [] pid = 3 -> 5 * MB
      [] OTHER   -> 50 * MB

\* Any set S of pids, listed by ascending or descending pid, any parent and
\* any of the two names for each; the memory follows the pid.
StructureSnapshot(ord, ppid, name) ==
    [ k \in DOMAIN ord |->
        Record(ord[k], ppid[ord[k]], name[ord[k]], RssByPid(ord[k])) ]

\* Pids 1..n in ascending order, all matching the query, every parent a
\* smaller pid or 0, any memory for each.
RssSnapshot(n, ppid, rss) ==
    [ p \in 1..n |-> Record(p, ppid[p], RootName, rss[p]) ]

ForestParents(n) ==
    { f \in [ 1..n -> ParentRange ] : \A p \in 1..n : f[p] < p }

\* Root selection example: matching pids 10, 20, 30 with parents 1, 10, 1.
RootsExample ==
    << Record(10, 1, RootName, 10 * MB),
       Record(20, 10, RootName, 50 * MB),
       Record(30, 1, RootName, 5 * MB) >>

\* End-to-end example: pids 1, 2, 3 named root, 10MB/50MB/5MB, parents 0, 1, 1.
EndToEndExample ==
    << Record(1, 0, RootName, 10 * MB),
       Record(2, 1, RootName, 50 * MB),
       Record(3, 1, RootName, 5 * MB) >>

\* Ranking example: rss 100, 100, 50, 10 in one tree.
RankExample ==
    << Record(2, 0, RootName, 100 * MB),
       Record(3, 2, RootName, 100 * MB),
       Record(4, 2, RootName, 50 * MB),
       Record(5, 3, RootName, 10 * MB) >>

ExampleSnapshots == { RootsExample, EndToEndExample, RankExample }

(***************************************************************************)
(* State.                                                                  *)
(***************************************************************************)
VARIABLES
    snapshot,            \* what _get_all_processes returns in this pass
    process_name,        \* the query
    processes,           \* self.processes
    matching_pids,       \* analyze_process_tree's locals ...
    root_pids,
    i,                   \* position in root_pids, from 1
    root_process,
    all_rss_in_tree,
    process_count,
    total_memory,
    output,              \* what the pass has printed, one report per tree
    pc,                  \* where analyze_process_tree stands
    ret,                 \* its outcome: "" while running
    calls,               \* the last direct call of build_process_tree
    args,                \* the arguments of a direct call of one function
    result,              \* what that call gave: <<>> until it has returned
    passes,              \* analyze_process_tree calls begun so far
    table,               \* the processes alive in the operating system
    watch,               \* args.watch: <<>> if not given, else << SECONDS >>
    exit_status          \* <<>> while the program runs, else << status >>

vars == << snapshot, process_name, processes, matching_pids, root_pids, i,
           root_process, all_rss_in_tree, process_count, total_memory,
           output, pc, ret, calls, args, result, passes, table, watch,
           exit_status >>

\* What a pass of analyze_process_tree never touches.
beyond == << args, result, passes, table, watch, exit_status >>

locals == << root_process, all_rss_in_tree, process_count, total_memory >>

InitSnapshot ==
    \/ \E S \in SUBSET PidRange :
         \E ord \in { AscSeq(S), Reverse(AscSeq(S)) } :
           \E ppid \in [ S -> ParentRange ], name \in [ S -> NameSet ] :
             snapshot = StructureSnapshot(ord, ppid, name)
    \/ \E n \in PidRange :
         \E ppid \in ForestParents(n), rss \in [ 1..n -> RssSet ] :
           snapshot = RssSnapshot(n, ppid, rss)
    \/ snapshot \in ExampleSnapshots

\* MemoryMonitor(), and analyze_process_tree(process_name) about to start.
Constructed ==
    /\ process_name = Query
    /\ processes = EmptyRegistry
    /\ matching_pids = <<>>
    /\ root_pids = <<>>
    /\ i = 0
    /\ root_process = <<>>
    /\ all_rss_in_tree = <<>>
    /\ process_count = 0
    /\ total_memory = 0
    /\ output = <<>>
    /\ pc = "start"
    /\ ret = ""
    /\ calls = <<>>
    /\ args = [ op |-> "analyze_process_tree" ]
    /\ result = <<>>
    /\ passes = 1
    /\ table = <<>>
    /\ watch = <<>>
    /\ exit_status = <<>>

Init ==
    /\ InitSnapshot
    /\ Constructed

(***************************************************************************)
(* analyze_process_tree, one action per stage.                             *)
(***************************************************************************)
\* Lines 447-460: scan and match, reset the flags, stop if nothing matches.
Scan ==
    /\ pc = "start"
    /\ LET got == get_processes_by_name(processes, snapshot, process_name)
       IN  /\ processes' = reset_memory_flags(got.processes)
           /\ matching_pids' = got.matching_pids
           /\ IF got.matching_pids = <<>>
              THEN pc' = "done" /\ ret' = "False"
              ELSE pc' = "matched" /\ ret' = ret
    /\ UNCHANGED << beyond, snapshot, process_name, root_pids, i, locals, output, calls >>

\* Lines 467-480: select the roots, stop if there is none.
FindRoots ==
    /\ pc = "matched"
    /\ root_pids' = find_root_processes(processes, matching_pids)
    /\ IF root_pids' = <<>>
       THEN pc' = "done" /\ ret' = "False" /\ i' = i
       ELSE pc' = "loop" /\ ret' = ret /\ i' = 1
    /\ UNCHANGED << beyond, snapshot, process_name, processes, matching_pids, locals,
                    output, calls >>

\* After the body of the loop for root_pids[i]: next root, or return True.
Advance(k) ==
    IF k < Len(root_pids)
    THEN pc' = "loop" /\ i' = k + 1 /\ ret' = ret
    ELSE pc' = "done" /\ i' = k /\ ret' = "True"

\* Line 499: build the tree of root_pids[i]; lines 554-558 if it is None.
BuildTree ==
    /\ pc = "loop"
    /\ LET built == build_process_tree(processes, root_pids[i])
       IN  /\ processes' = built.processes
           /\ root_process' = built.result
           /\ IF built.result = <<>>
              THEN /\ output' = Append(output, [ root_pid |-> root_pids[i], built |-> FALSE ])
                   /\ Advance(i)
              ELSE /\ output' = output
                   /\ pc' = "built" /\ i' = i /\ ret' = ret
    /\ UNCHANGED << beyond, snapshot, process_name, matching_pids, root_pids,
                    all_rss_in_tree, process_count, total_memory, calls >>

\* Lines 508-529: collect, count, total, and mark the three ranks. The walks
\* are recursive; on a child-link cycle the first of them raises.
RankTree ==
    /\ pc = "built"
    /\ LET root == root_process[1]
       IN  IF recursion_overflows(processes.info, root)
           THEN /\ pc' = "crashed" /\ ret' = "RecursionError"
                /\ UNCHANGED << processes, all_rss_in_tree, process_count, total_memory >>
           ELSE LET rss_values == _collect_all_rss_in_tree(processes.info, root)
                IN  /\ all_rss_in_tree' = rss_values
                    /\ process_count' = _count_processes(processes.info, root)
                    /\ total_memory' = _calculate_total_memory(processes.info, root)
                    /\ processes' =
                         IF Len(rss_values) > 0
                         THEN [ processes EXCEPT !.info =
                                  _mark_memory_highlights_in_tree(@, root,
                                      tree_max_rss_of(rss_values),
                                      tree_second_max_rss_of(rss_values),
                                      tree_third_max_rss_of(rss_values)) ]
                         ELSE processes
                    /\ pc' = "ranked" /\ ret' = ret
    /\ UNCHANGED << beyond, snapshot, process_name, matching_pids, root_pids, i,
                    root_process, output, calls >>

\* Lines 531-553: print the tree and the summary with the top consumers.
PrintTree ==
    /\ pc = "ranked"
    /\ LET root == root_process[1]
       IN  output' = Append(output,
               [ root_pid      |-> root_pids[i],
                 built         |-> TRUE,
                 root          |-> root,
                 lines         |-> print_tree(processes.info, root, 0, total_memory),
                 process_count |-> process_count,
                 total_memory  |-> total_memory,
                 top_processes |->
                     _collect_top_memory_processes_with_percentages(
                         processes.info, root, total_memory) ])
    /\ Advance(i)
    /\ UNCHANGED << beyond, snapshot, process_name, processes, matching_pids, root_pids,
                    locals, calls >>

\* A caller's own build_process_tree(root_pid) on the monitor after the pass.
CallBuildProcessTree ==
    /\ pc = "done"
    /\ \E root_pid \in {0} \cup Range(processes.keys) :
         LET built == build_process_tree(processes, root_pid)
         IN  /\ processes' = built.processes
             /\ calls' = << [ root_pid |-> root_pid, result |-> built.result,
                              before |-> processes ] >>
    /\ UNCHANGED << beyond, snapshot, process_name, matching_pids, root_pids, i, locals,
                    output, pc, ret >>

Next ==
    \/ Scan
    \/ FindRoots
    \/ BuildTree
    \/ RankTree
    \/ PrintTree
    \/ CallBuildProcessTree

Spec == Init /\ [][Next]_vars

(***************************************************************************)
(* Vocabulary of the properties.                                           *)
(***************************************************************************)
\* The pids and the parent map of the snapshot, as the source delivered them.
SnapshotPids == { snapshot[k].pid : k \in DOMAIN snapshot }
SnapshotRecord(pid) == snapshot[CHOOSE k \in DOMAIN snapshot : snapshot[k].pid = pid]
SnapshotParent(pid) == SnapshotRecord(pid).ppid

\* Position of x in a sequence without repetitions.
IndexOf(s, x) == CHOOSE k \in DOMAIN s : s[k] = x
NoRepetition(s) == \A j, k \in DOMAIN s : s[j] = s[k] => j = k
\* a lists, in the order of b, elements of b.
InOrderOf(a, b) ==
    /\ Range(a) \subseteq Range(b)
    /\ \A j, k \in DOMAIN a : j < k => IndexOf(b, a[j]) < IndexOf(b, a[k])

\* The proper ancestors of pid: the pids met by following parent links
\* through the snapshot's records.
RECURSIVE AncestorsFrom(_, _)
AncestorsFrom(pid, seen) ==
    IF pid \notin SnapshotPids THEN seen
    ELSE LET parent == SnapshotParent(pid)
         IN  IF parent \in seen THEN seen
             ELSE AncestorsFrom(parent, seen \cup {parent})
Ancestors(pid) == AncestorsFrom(pid, {})

\* No pid of the snapshot is its own ancestor.
WellFormed == \A p \in SnapshotPids : p \notin Ancestors(p)

\* The child lists of a registry.
ChildLists(reg) == [ p \in DOMAIN reg.info |-> reg.info[p].children ]

\* The registry has been through at least one successful build_process_tree.
BuiltOnce ==
    \/ root_process # <<>>
    \/ calls # <<>> /\ calls[1].result # <<>>

C2_NoMatchedAncestor ==
    WellFormed =>
    \A r \in Range(root_pids) :
        /\ r \in Range(matching_pids)
        /\ Ancestors(r) \cap Range(matching_pids) = {}

(***************************************************************************)
(* C3. End to end: for pids 1, 2, 3 named root with 10MB, 50MB, 5MB and    *)
(* parents 0, 1, 1 the pass reports exactly one tree, rooted at pid 1,     *)
(* with 3 processes, 65MB in total and pid 2 as the top consumer.          *)
(***************************************************************************)
C3_EndToEnd ==
    snapshot = EndToEndExample /\ pc = "done" =>
        /\ ret = "True"
        /\ Len(output) = 1
        /\ output[1].built
        /\ output[1].root_pid = 1
        /\ output[1].process_count = 3
        /\ output[1].total_memory = 65 * MB
        /\ output[1].top_processes[1].process = 2

(***************************************************************************)
(* C4. build_process_tree is idempotent: once the registry has been built, *)
(* one more call with any root pid leaves every child list as it is, and   *)
(* no child is listed twice.                                               *)
(***************************************************************************)
C4_BuildIdempotent ==
    BuiltOnce =>
        /\ \A root_pid \in ParentRange \cup Range(processes.keys) :
             ChildLists(build_process_tree(processes, root_pid).processes)
               = ChildLists(processes)
        /\ \A p \in DOMAIN processes.info :
             NoRepetition(processes.info[p].children)

\* A direct call with another root than the pass's last one, on a registry
\* in which some node has two children.
C4_Witness ==
    /\ root_process # <<>>
    /\ calls # <<>>
    /\ calls[1].result # <<>>
    /\ calls[1].result # root_process
    /\ \E p \in DOMAIN processes.info : Len(processes.info[p].children) >= 2

(***************************************************************************)
(* C5. build_process_tree returns None iff the root pid is not a registry  *)
(* key; otherwise it returns that entry, and every node's child list is    *)
(* then exactly the OTHER registry nodes whose parent is that node, each   *)
(* once, in insertion order; no node is its own child.                     *)
(***************************************************************************)
ChildrenAreTheOthers(reg) ==
    \A p \in DOMAIN reg.info :
        LET kids == reg.info[p].children
        IN  /\ Range(kids) = { q \in DOMAIN reg.info :
                                 q # p /\ reg.info[q].parent_pid = p }
            /\ NoRepetition(kids)
            /\ InOrderOf(kids, reg.keys)
            /\ p \notin Range(kids)

C5_BuildContract ==
    /\ calls # <<>> =>
         /\ calls[1].result = <<>> <=> ~InRegistry(calls[1].before, calls[1].root_pid)
         /\ calls[1].result # <<>> =>
              /\ calls[1].result = <<calls[1].root_pid>>
              /\ ChildrenAreTheOthers(processes)
    /\ pc = "built" =>
         /\ root_process = <<root_pids[i]>>
         /\ ChildrenAreTheOthers(processes)

(***************************************************************************)
(* Vocabulary of the aggregation and ranking properties.                   *)
(***************************************************************************)
RECURSIVE RssSum(_, _)
RssSum(info, S) ==
    IF S = {} THEN 0
    ELSE LET p == CHOOSE q \in S : TRUE
         IN  info[p].rss + RssSum(info, S \ {p})

Occurrences(s, v) == Cardinality({ k \in DOMAIN s : s[k] = v })

\* The tree of the root in hand, once the walks have returned.
TreeInHand == tree_nodes(processes.info, root_process[1])
TreeRss == { processes.info[p].rss : p \in TreeInHand }

\* The ranks of a set of rss values, as the claim words them.
MaxOf(V) == SetMax(V)
SecondMaxOf(V) ==
    IF V \ {MaxOf(V)} = {} THEN 0 ELSE SetMax(V \ {MaxOf(V)})
ThirdMaxOf(V) ==
    IF V \ {MaxOf(V), SecondMaxOf(V)} = {} THEN 0
    ELSE SetMax(V \ {MaxOf(V), SecondMaxOf(V)})

\* The three flags a node with this rss has when ranked among the values V.
FlagsAmong(rss, V) ==
    [ is_max_memory        |-> rss = MaxOf(V),
      is_second_max_memory |-> rss = SecondMaxOf(V) /\ SecondMaxOf(V) > 0,
      is_third_max_memory  |-> rss = ThirdMaxOf(V) /\ ThirdMaxOf(V) > 0 ]

FlagsOf(node) ==
    [ is_max_memory        |-> node.is_max_memory,
      is_second_max_memory |-> node.is_second_max_memory,
      is_third_max_memory  |-> node.is_third_max_memory ]

FlagCount(node) ==
    (IF node.is_max_memory THEN 1 ELSE 0)
    + (IF node.is_second_max_memory THEN 1 ELSE 0)
    + (IF node.is_third_max_memory THEN 1 ELSE 0)

\* The pids of the lines of a report, in the order printed (pre-order).
LinePids(report) == [ k \in DOMAIN report.lines |-> report.lines[k].pid ]

\* No node of the tree in hand was in a tree ranked earlier in the pass.
FreshTree ==
    \A k \in DOMAIN output :
        output[k].built => Range(LinePids(output[k])) \cap TreeInHand = {}

(***************************************************************************)
(* C6. On every built tree the three aggregation walks visit each node     *)
(* reachable from the root exactly once: the count is 1 plus the counts of *)
(* the children and equals the number of reachable nodes, the total is the *)
(* root's rss plus the children's totals and equals the sum of rss over    *)
(* the reachable nodes, the rss list has one entry per reachable node; a   *)
(* leaf has count 1 and total equal to its own rss.                        *)
(***************************************************************************)
C6_WalksVisitOnce ==
    pc = "ranked" =>
        LET info == processes.info
        IN  /\ process_count = Cardinality(TreeInHand)
            /\ total_memory = RssSum(info, TreeInHand)
            /\ Len(all_rss_in_tree) = process_count
            /\ SumSeq(all_rss_in_tree) = total_memory
            /\ \A v \in Range(all_rss_in_tree) \cup TreeRss :
                 Occurrences(all_rss_in_tree, v)
                   = Cardinality({ p \in TreeInHand : info[p].rss = v })
            /\ \A p \in TreeInHand :
                 LET kids == info[p].children
                 IN  /\ _count_processes(info, p)
                          = 1 + SumSeq([ k \in DOMAIN kids |->
                                           Cardinality(tree_nodes(info, kids[k])) ])
                     /\ _calculate_total_memory(info, p)
                          = info[p].rss
                            + SumSeq([ k \in DOMAIN kids |->
                                         RssSum(info, tree_nodes(info, kids[k])) ])
                     /\ kids = <<>> =>
                          /\ _count_processes(info, p) = 1
                          /\ _calculate_total_memory(info, p) = info[p].rss

\* A tree of three levels has been aggregated.
C6_Witness ==
    /\ pc = "ranked"
    /\ process_count >= 3
    /\ \E p \in Range(processes.info[root_process[1]].children) :
         processes.info[p].children # <<>>

C8_FlagsExclusive ==
    WellFormed =>
        \A p \in DOMAIN processes.info : FlagCount(processes.info[p]) <= 1

(***************************************************************************)
(* C9. When print_tree renders the tree of a root, the flags of every node *)
(* of that tree are exactly those derived from that tree's own rss values: *)
(* no flag set while ranking an earlier tree of the pass is still set.     *)
(* Stated for the snapshots without a parent cycle, a part of the claim.   *)
(***************************************************************************)
C9_FlagsOfOwnTree ==
    WellFormed =>
        \A k \in DOMAIN output :
            output[k].built =>
                LET lines == output[k].lines
                    V == { lines[j].rss : j \in DOMAIN lines }
                IN  \A j \in DOMAIN lines :
                        FlagsOf(lines[j]) = FlagsAmong(lines[j].rss, V)

(***************************************************************************)
(* C10. The top list of a tree holds min(3, number of nodes) distinct      *)
(* nodes of the tree in non-increasing rss order, nodes of equal rss in    *)
(* pre-order, and no omitted node has more rss than a listed one; a node's *)
(* percentage is 100 * rss / total, and 0 when the total is 0.             *)
(***************************************************************************)
C10_TopThree ==
    \A k \in DOMAIN output :
        output[k].built =>
            LET report == output[k]
                top == [ j \in DOMAIN report.top_processes |->
                           report.top_processes[j].process ]
                order == LinePids(report)
                rss(p) == processes.info[p].rss
            IN  /\ Len(top) = Min(3, report.process_count)
                /\ NoRepetition(top)
                /\ Range(top) \subseteq Range(order)
                /\ \A a, b \in DOMAIN top : a < b =>
                     \/ rss(top[a]) > rss(top[b])
                     \/ /\ rss(top[a]) = rss(top[b])
                        /\ IndexOf(order, top[a]) < IndexOf(order, top[b])
                /\ \A p \in Range(order) \ Range(top) :
                     \A a \in DOMAIN top :
                        \/ rss(p) < rss(top[a])
                        \/ /\ rss(p) = rss(top[a])
                           /\ IndexOf(order, top[a]) < IndexOf(order, p)
                /\ \A j \in DOMAIN top :
                     report.top_processes[j].percentage =
                        IF report.total_memory = 0
                        THEN [ num |-> 0, den |-> 1 ]
                        ELSE [ num |-> rss(top[j]), den |-> report.total_memory ]

\* A tree of more than three nodes, two of its top three tied, was reported.
C10_Witness ==
    \E k \in DOMAIN output :
        /\ output[k].built
        /\ output[k].process_count > 3
        /\ \E a, b \in DOMAIN output[k].top_processes :
             /\ a < b
             /\ processes.info[output[k].top_processes[a].process].rss
                  = processes.info[output[k].top_processes[b].process].rss

(***************************************************************************)
(* Direct calls of single functions. The arguments are drawn at the start  *)
(* and the call is one step; the monitor is at rest meanwhile.             *)
(***************************************************************************)
AtRest ==
    /\ snapshot = <<>>
    /\ process_name = <<>>
    /\ processes = EmptyRegistry
    /\ matching_pids = <<>>
    /\ root_pids = <<>>
    /\ i = 0
    /\ root_process = <<>>
    /\ all_rss_in_tree = <<>>
    /\ process_count = 0
    /\ total_memory = 0
    /\ output = <<>>
    /\ pc = "call"
    /\ ret = ""
    /\ calls = <<>>
    /\ passes = 0
    /\ table = <<>>
    /\ watch = <<>>
    /\ exit_status = <<>>

pass == << snapshot, process_name, processes, matching_pids, root_pids, i,
           locals, output, pc, ret, calls, passes, table, watch, exit_status >>

\* Every string of at most n characters of the alphabet.
Words(alphabet, n) == UNION { [ 1..k -> alphabet ] : k \in 0..n }

Firefox15 == << "f", "i", "r", "e", "f", "o", "x", "d", "e", "v", "e", "l", "o", "p", "e" >>
FirefoxLong == << "f", "i", "r", "e", "f", "o", "x", "d", "e", "v", "e", "l", "o", "p", "e", "r", "-", "e", "d", "i", "t", "i", "o", "n" >>

\* Names as ps reports them and queries as users type them.
MatcherWords ==
    { << "f", "i", "r", "e", "f", "o", "x" >>, << "F", "i", "r", "e", "f", "o", "x" >>, << "f", "i", "r", "e", "f", "o", "x", "-", "d", "e", "v", "e", "l", "o", "p", "e", "r" >>, << "c", "h", "r", "o", "m", "e" >>, << "f", "i", "r", "e" >>,
      Firefox15, FirefoxLong, << "f", "i", "r", "e", "f", "o", "x", "d", "e", "v", "e", "l", "o", "p", "m", "e", "n", "t" >>,
      << "/", "u", "s", "r", "/", "b", "i", "n", "/", "f", "i", "r", "e", "f", "o", "x" >>, << "/", "o", "p", "t", "/", "F", "i", "r", "e", "f", "o", "x", ".", "b", "i", "n" >>, << "f", "i", "r", "e", "f", "o", "x", ".", "e", "x", "e" >>,
      << "f", "i", "r", "e", "f", "o", "x", ".", "a", "p", "p" >>, << "f", "i", "r", "e", "f", "o", "x", ".", "r", "u", "n" >>, << "f", "i", "r", "e", "f", "o", "x", ".", "a", "p", "p", ".", "a", "p", "p" >>, << "f", "i", "r", "e", "f", "o", "x", ".", "t", "a", "r" >>,
      << "m", "y", " ", "a", "p", "p" >>, << "m", "y", "a", "p", "p" >>, << "M", "y", " ", "A", "p", "p", ".", "a", "p", "p" >>, << "m", "y", " ", "a", "p", "p", ".", "a", "p", "p" >>, << >> }

MatcherAlphabet == { "a", "B", "/" }

InitNameMatches ==
    \E wordset \in { MatcherWords, Words(MatcherAlphabet, MaxNameLen) } :
      \E name \in wordset, query \in wordset :
        args = [ op |-> "name_matches", name |-> name, process_name |-> query ]

\* Lines 222-227 of get_processes_by_name on one record's name.
CallNameMatches ==
    /\ args.op = "name_matches"
    /\ result = <<>>
    /\ result' = << name_matches(args.name, args.process_name) >>
    /\ UNCHANGED << pass, args >>

(***************************************************************************)
(* The matching rule in the words of its contract.                         *)
(***************************************************************************)
IsPrefixOf(p, s) ==
    /\ Len(p) <= Len(s)
    /\ \A k \in 1..Len(p) : p[k] = s[k]

IsSuffixOf(p, s) ==
    /\ Len(p) <= Len(s)
    /\ \A k \in 1..Len(p) : p[k] = s[Len(s) - Len(p) + k]

FirstChars(s, n) == [ k \in 1..Min(n, Len(s)) |-> s[k] ]

\* The text after the last "/", the whole text if there is none.
WithoutPath(s) ==
    LET slashes == { k \in 1..Len(s) : s[k] = "/" }
        from    == IF slashes = {} THEN 0 ELSE SetMax(slashes)
    IN  [ k \in 1..(Len(s) - from) |-> s[from + k] ]

Extensions == { << ".", "e", "x", "e" >>, << ".", "a", "p", "p" >>, << ".", "b", "i", "n" >>, << ".", "r", "u", "n" >> }

\* One trailing extension removed, if there is one.
WithoutExtension(s) ==
    IF \E e \in Extensions : IsSuffixOf(e, s)
    THEN FirstChars(s, Len(s) - 4)
    ELSE s

Basename(s) == WithoutExtension(WithoutPath(s))

WithoutSpaces(s) == SelectSeq(s, LAMBDA c : c # " ")

Accepts(name, query) ==
    LET n == lower(name)
        q == lower(query)
    IN  \/ n = q
        \/ IsPrefixOf(n, q)
        \/ IsPrefixOf(q, n)
        \/ Len(q) > 15 /\ IsPrefixOf(FirstChars(q, 15), n)
        \/ Basename(n) = Basename(q)
        \/ IsSuffixOf(<< ".", "a", "p", "p" >>, q) /\ n = FirstChars(q, Len(q) - 4)
        \/ (\E k \in 1..Len(q) : q[k] = " ") /\ n = WithoutSpaces(q)

Matched(name, query) ==
    /\ args.op = "name_matches"
    /\ args.name = name
    /\ args.process_name = query
    /\ result # <<>>

\* C11: the matcher accepts a (name, query) pair exactly when, on the
\* lower-cased strings, they are equal, or one is a prefix of the other, or
\* the query is longer than 15 characters and the name starts with its first
\* 15, or the basenames without path and without one trailing
\* .exe/.app/.bin/.run are equal, or the query ends in .app and the name is
\* the query without it, or the query has spaces and the name is the query
\* without them. "firefox" matches "firefox", "Firefox" and
\* "firefox-developer", a name truncated to 15 characters matches the query
\* it was cut from, and "firefox" does not match "chrome".
C11_Matcher ==
    /\ (args.op = "name_matches" /\ result # <<>>)
          => (result[1] <=> Accepts(args.name, args.process_name))
    /\ \A name \in { << "f", "i", "r", "e", "f", "o", "x" >>, << "F", "i", "r", "e", "f", "o", "x" >>, << "f", "i", "r", "e", "f", "o", "x", "-", "d", "e", "v", "e", "l", "o", "p", "e", "r" >> } :
          Matched(name, << "f", "i", "r", "e", "f", "o", "x" >>) => result[1]
    /\ Matched(Firefox15, FirefoxLong) => result[1]
    /\ Matched(<< "c", "h", "r", "o", "m", "e" >>, << "f", "i", "r", "e", "f", "o", "x" >>) => ~ result[1]

C11_Witness ==
    /\ Matched(Firefox15, FirefoxLong)
    /\ Len(args.name) = TruncLen
    /\ result = << TRUE >>

(***************************************************************************)
(* memon-qwen (src/memon-qwen/src/memon/main.py): the psutil variant.      *)
(* An enumerated process is [pid, name, raises]; raises names the psutil   *)
(* error its lookup raises, "" if none.                                    *)
(***************************************************************************)
\* needle in hay, on strings
is_in(needle, hay) ==
    \E k \in 0..(Len(hay) - Len(needle)) :
      SubSeq(hay, k + 1, k + Len(needle)) = needle

\* except (psutil.NoSuchProcess, psutil.AccessDenied, psutil.ZombieProcess)
FindCaught == { "NoSuchProcess", "AccessDenied", "ZombieProcess" }

\* The same, but the first process whose lookup raises ends the scan.
_find_processes_by_name_stopping(process_iter, query) ==
    LET raising == { k \in DOMAIN process_iter : process_iter[k].raises # "" }
        upto    == IF raising = {} THEN Len(process_iter)
                   ELSE (CHOOSE k \in raising : \A m \in raising : k <= m) - 1
        hits    == SelectSeq(SubSeq(process_iter, 1, upto),
                             LAMBDA proc : is_in(lower(query), lower(proc.name)))
    IN  [ k \in 1..Len(hits) |-> hits[k].pid ]

RECURSIVE find_loop(_, _, _)
\* The for loop of _find_processes_by_name over what is left of process_iter.
find_loop(procs, query, found) ==
    IF procs = <<>>
    THEN found
    ELSE LET proc == Head(procs)
         IN  IF proc.raises \in FindCaught
             THEN find_loop(Tail(procs), query, found)
             ELSE IF is_in(lower(query), lower(proc.name))
                  THEN find_loop(Tail(procs), query,
                                 Append(found, proc.pid))
                  ELSE find_loop(Tail(procs), query, found)

\* MemoryMonitor._find_processes_by_name
_find_processes_by_name(process_iter, query) ==
    find_loop(process_iter, query, <<>>)

Enumerated(pid, name, raises) == [ pid |-> pid, name |-> name, raises |-> raises ]

\* test_find_processes_by_name
FindExample ==
    << Enumerated(1234, << "f", "i", "r", "e", "f", "o", "x" >>, ""), Enumerated(5678, << "c", "h", "r", "o", "m", "e" >>, ""),
       Enumerated(9012, << "f", "i", "r", "e", "f", "o", "x", "-", "d", "e", "v", "e", "l", "o", "p", "e", "r" >>, ""), Enumerated(3456, << "s", "a", "f", "a", "r", "i" >>, "") >>

FindNames == { << "f", "i", "r", "e", "f", "o", "x" >>, << "F", "i", "r", "e", "f", "o", "x", "-", "D", "e", "v" >>, << "c", "h", "r", "o", "m", "e" >> }

FindQueries == { << "f", "i", "r", "e", "f", "o", "x" >>, << "F", "o", "x" >> }

InitFindProcessesByName ==
    \E query \in FindQueries :
      \/ \E n \in 0..MaxProcs :
           \E ord \in { [ k \in 1..n |-> k ], [ k \in 1..n |-> n + 1 - k ] } :
             \E name \in [ 1..n -> FindNames ], raises \in [ 1..n -> FindCaught \cup {""} ] :
               args = [ op |-> "_find_processes_by_name",
                        process_iter |->
                            [ k \in 1..n |-> Enumerated(ord[k], name[k], raises[k]) ],
                        process_name |-> query ]
      \/ args = [ op |-> "_find_processes_by_name", process_iter |-> FindExample,
                  process_name |-> query ]

CallFindProcessesByName ==
    /\ args.op = "_find_processes_by_name"
    /\ result = <<>>
    /\ result' = << _find_processes_by_name(args.process_iter, args.process_name) >>
    /\ UNCHANGED << pass, args >>

\* The name contains the query, letter case aside.
ContainsIgnoringCase(name, query) ==
    LET n == lower(name)
        q == lower(query)
    IN  \E off \in 0..(Len(n) - Len(q)) : \A k \in 1..Len(q) : n[off + k] = q[k]

Digits == << "0", "1", "2", "3", "4", "5", "6", "7", "8", "9" >>

\* str.isdigit()
isdigit(s) ==
    /\ s # <<>>
    /\ \A k \in DOMAIN s : \E d \in DOMAIN Digits : Digits[d] = s[k]

RECURSIVE digits_value(_)
digits_value(s) ==
    IF s = <<>>
    THEN 0
    ELSE 10 * digits_value(SubSeq(s, 1, Len(s) - 1))
         + (CHOOSE d \in DOMAIN Digits : Digits[d] = s[Len(s)]) - 1

\* int(s) returns: digits with an optional sign. Otherwise it raises ValueError.
int_parses(s) ==
    \/ isdigit(s)
    \/ Len(s) > 1 /\ s[1] \in { "-", "+" } /\ isdigit(Tail(s))

\* int(s), where it parses
int_of(s) ==
    IF isdigit(s) THEN digits_value(s)
    ELSE IF s[1] = "-" THEN 0 - digits_value(Tail(s))
    ELSE digits_value(Tail(s))

RECURSIVE split_loop(_, _, _)
split_loop(s, word, parts) ==
    IF s = <<>>
    THEN IF word = <<>> THEN parts ELSE Append(parts, word)
    ELSE IF Head(s) = " "
         THEN split_loop(Tail(s), <<>>, IF word = <<>> THEN parts ELSE Append(parts, word))
         ELSE split_loop(Tail(s), Append(word, Head(s)), parts)

\* str.split(): the fields between runs of blanks
split(line) == split_loop(line, <<>>, <<>>)

RECURSIVE join(_, _)
\* sep.join(parts)
join(sep, parts) ==
    IF parts = <<>> THEN <<>>
    ELSE IF Len(parts) = 1 THEN parts[1]
    ELSE parts[1] \o << sep >> \o join(sep, Tail(parts))

\* s.split(c)[0]: the text before the first occurrence of c (all of s if none).
split_first(s, c) ==
    IF contains(s, c)
    THEN LET k == CHOOSE j \in DOMAIN s :
                      s[j] = c /\ \A m \in DOMAIN s : s[m] = c => j <= m
         IN  SubSeq(s, 1, k - 1)
    ELSE s

\* MemoryMonitor._extract_process_name
_extract_process_name(command) ==
    IF contains(command, "/")
    THEN LET name == split_last(command, "/")
         IN  IF contains(name, " ") THEN split_first(name, " ") ELSE name
    ELSE split_first(command, " ")

\* The dict appended to processes.
RawRecord(pid, ppid, name, rss, vsz) ==
    [ pid |-> pid, ppid |-> ppid, name |-> name, rss |-> rss, vsz |-> vsz ]

\* Lines 128-153: the body of the macOS loop for one line; what it appends.
darwin_line(line) ==
    LET parts == split(line)
        n     == Len(parts)
    IN  IF /\ n >= 5
           /\ int_parses(parts[1]) /\ int_parses(parts[2])
           /\ int_parses(parts[n]) /\ int_parses(parts[n - 1])
        THEN << RawRecord(int_of(parts[1]), int_of(parts[2]),
                          join(" ", SubSeq(parts, 3, n - 2)),
                          int_of(parts[n - 1]) * 1024, int_of(parts[n]) * 1024) >>
        ELSE <<>>

RECURSIVE darwin_loop(_, _)
darwin_loop(lines, acc) ==
    IF lines = <<>>
    THEN [ processes |-> acc, raised |-> "" ]
    ELSE darwin_loop(Tail(lines), acc \o darwin_line(Head(lines)))

RECURSIVE linux_loop(_, _, _, _)
\* Lines 157-193: the Linux loop. rss_index and vsz_index are locals of the
\* function, assigned only on a line with two numeric fields after the
\* parent pid: <<>> while unassigned, else the value of the last such line.
\* Indices are Python's, from 0.
linux_loop(lines, rss_index, vsz_index, acc) ==
    IF lines = <<>>
    THEN [ processes |-> acc, raised |-> "" ]
    ELSE LET parts == split(Head(lines))
             n     == Len(parts)
             numeric_indices ==
                 SelectSeq([ k \in 1..(n - 2) |-> k + 1 ],
                           LAMBDA j : isdigit(parts[j + 1]))
             m     == Len(numeric_indices)
             rss_now == IF m >= 2 THEN << numeric_indices[m - 1] >> ELSE rss_index
             vsz_now == IF m >= 2 THEN << numeric_indices[m] >> ELSE vsz_index
         IN  IF n < 5 \/ ~ int_parses(parts[1]) \/ ~ int_parses(parts[2])
             THEN linux_loop(Tail(lines), rss_index, vsz_index, acc)
             ELSE IF rss_now = <<>>
             THEN [ processes |-> <<>>, raised |-> "UnboundLocalError" ]
             ELSE IF /\ rss_now[1] # -1
                     /\ vsz_now[1] < n
                     /\ int_parses(parts[rss_now[1] + 1])
                     /\ int_parses(parts[vsz_now[1] + 1])
             THEN linux_loop(Tail(lines), rss_now, vsz_now,
                      Append(acc,
                          RawRecord(int_of(parts[1]), int_of(parts[2]),
                              _extract_process_name(
                                  join(" ", SubSeq(parts, 3, rss_now[1]))),
                              int_of(parts[rss_now[1] + 1]) * 1024,
                              int_of(parts[vsz_now[1] + 1]) * 1024)))
             ELSE linux_loop(Tail(lines), rss_now, vsz_now, acc)

\* MemoryMonitor._get_all_processes on the lines that follow the header
_get_all_processes(system, lines) ==
    IF system = "darwin"
    THEN darwin_loop(lines, <<>>)
    ELSE linux_loop(lines, <<>>, <<>>, <<>>)

\* Lines ps can print, and lines it should not.
PsLines ==
    { << "1", " ", "0", " ", "i", "n", "i", "t", " ", "1", "0", " ", "2", "0" >>, << "2", " ", " ", "1", " ", "/", "b", "i", "n", "/", "s", "h", " ", "-", "c", " ", "3", "0", " ", "4", "0" >>, << "3", " ", "1", " ", "s", "h", " ", "5", "0", " ", "6", "0" >>,
      << "4", " ", "1", " ", "s", "h" >>, << "x", " ", "1", " ", "s", "h", " ", "1", "0", " ", "2", "0" >>, << "5", " ", "y", " ", "s", "h", " ", "1", "0", " ", "2", "0" >>, << "6", " ", "1", " ", "s", "h", " ", "-", " ", "-" >>,
      << "8", " ", "1", " ", "s", "h", " ", "1", "0", " ", "z" >>, << " ", " ", " " >> }

InitGetAllProcesses ==
    \E system \in { "darwin", "linux" }, n \in 0..MaxLines :
      \E lines \in [ 1..n -> PsLines ] :
        args = [ op |-> "_get_all_processes", system |-> system, lines |-> lines ]

CallGetAllProcesses ==
    /\ args.op = "_get_all_processes"
    /\ result = <<>>
    /\ result' = << _get_all_processes(args.system, args.lines) >>
    /\ UNCHANGED << pass, args >>

\* A line as the claim sorts it: fewer than 5 fields, or a pid or parent
\* pid that is not a number, or no number in the two memory fields.
Malformed(line) ==
    LET fields == split(line)
        n      == Len(fields)
    IN  \/ n < 5
        \/ ~ isdigit(fields[1])
        \/ ~ isdigit(fields[2])
        \/ ~ isdigit(fields[n - 1])
        \/ ~ isdigit(fields[n])

\* What the line gives when it is the only line of the listing.
Alone(system, line) == _get_all_processes(system, << line >>).processes

RECURSIVE OwnRecords(_, _)
OwnRecords(system, lines) ==
    IF lines = <<>> THEN <<>>
    ELSE (IF Malformed(Head(lines)) THEN <<>> ELSE Alone(system, Head(lines)))
         \o OwnRecords(system, Tail(lines))

\* C13: parsing skips malformed lines without aborting the scan: a malformed
\* line gives no record and changes no other line's record, and every
\* well-formed line before and after it gives its own record, with its own
\* pid, parent pid, rss and vsz.
C13_MalformedSkipped ==
    (args.op = "_get_all_processes" /\ result # <<>>) =>
        /\ result[1].raised = ""
        /\ result[1].processes = OwnRecords(args.system, args.lines)
        /\ \A k \in DOMAIN args.lines :
             ~ Malformed(args.lines[k]) =>
                 LET fields == split(args.lines[k])
                     n      == Len(fields)
                     own    == Alone(args.system, args.lines[k])
                 IN  /\ Len(own) = 1
                     /\ own[1].pid = digits_value(fields[1])
                     /\ own[1].ppid = digits_value(fields[2])
                     /\ own[1].rss = 1024 * digits_value(fields[n - 1])
                     /\ own[1].vsz = 1024 * digits_value(fields[n])

(***************************************************************************)
(* MemoryMonitor._extract_process_name on full command lines.              *)
(***************************************************************************)
CommandAlphabet == { "a", "b", "/", " " }

CommandExamples ==
    { << "/", "u", "s", "r", "/", "b", "i", "n", "/", "p", "y", "t", "h", "o", "n", " ", "/", "t", "m", "p", "/", "x", ".", "p", "y" >>, << "p", "y", "t", "h", "o", "n", " ", "/", "t", "m", "p", "/", "x", ".", "p", "y" >>, << "/", "b", "i", "n", "/", "s", "h", " ", "-", "c" >>, << "s", "h" >> }

InitExtractProcessName ==
    \E command \in Words(CommandAlphabet, MaxCommandLen) \cup CommandExamples :
      args = [ op |-> "_extract_process_name", command |-> command ]

CallExtractProcessName ==
    /\ args.op = "_extract_process_name"
    /\ result = <<>>
    /\ result' = << _extract_process_name(args.command) >>
    /\ UNCHANGED << pass, args >>

\* The text before the first blank, the whole text if there is none.
FirstToken(s) ==
    LET blanks == { k \in 1..Len(s) : s[k] = " " }
        upto   == IF blanks = {} THEN Len(s)
                  ELSE (CHOOSE k \in blanks : \A m \in blanks : k <= m) - 1
    IN  [ k \in 1..upto |-> s[k] ]

\* C14: _extract_process_name gives the bare executable name of every
\* command line, that is the basename of its first space-delimited token,
\* also when an argument contains a "/".
C14_ExtractName ==
    (args.op = "_extract_process_name" /\ result # <<>>) =>
        result[1] = WithoutPath(FirstToken(args.command))

(***************************************************************************)
(* One MemoryMonitor used for several passes: analyze_process_tree is      *)
(* called again after it has returned, on what ps lists by then.           *)
(***************************************************************************)
\* A chain of n matching processes, pids 2..n+1, each the child of the one
\* before it.
Chain(n) ==
    [ k \in 1..n |-> Record(k + 1, IF k = 1 THEN 0 ELSE k, RootName, 10 * MB) ]

ChainSnapshots == { Chain(n) : n \in 0..MaxProcs }

InitRepeat ==
    /\ snapshot \in ChainSnapshots
    /\ Constructed

\* Line 439: the next call on the same monitor. The locals are new,
\* self.processes is what the calls before left in it.
AnalyzeAgain ==
    /\ pc = "done"
    /\ passes < MaxPasses
    /\ passes' = passes + 1
    /\ snapshot' \in ChainSnapshots
    /\ matching_pids' = <<>>
    /\ root_pids' = <<>>
    /\ i' = 0
    /\ root_process' = <<>>
    /\ all_rss_in_tree' = <<>>
    /\ process_count' = 0
    /\ total_memory' = 0
    /\ output' = <<>>
    /\ pc' = "start"
    /\ ret' = ""
    /\ UNCHANGED << process_name, processes, calls, args, result, table, watch,
                    exit_status >>

NextRepeat ==
    \/ Scan
    \/ FindRoots
    \/ BuildTree
    \/ RankTree
    \/ PrintTree
    \/ CallBuildProcessTree
    \/ AnalyzeAgain

SpecRepeat == InitRepeat /\ [][NextRepeat]_vars

\* C15: the registry is scoped to one pass: after any sequence of passes the
\* registry a pass uses holds exactly the processes of that pass's own
\* snapshot, and a process recorded by an earlier pass that is absent from
\* the current snapshot is neither in the registry nor in a tree of the pass.
C15_RegistryScoped ==
    /\ pc \in { "matched", "loop", "built", "ranked", "done" }
          => Range(processes.keys) = SnapshotPids
    /\ pc \in { "built", "ranked" } => TreeInHand \subseteq SnapshotPids
    /\ \A k \in DOMAIN output :
          output[k].built => Range(LinePids(output[k])) \subseteq SnapshotPids

(***************************************************************************)
(* memon-qwen, the whole program: main() with its single run and its watch *)
(* loop, and analyze_process_tree, which asks psutil anew at every stage   *)
(* while processes of the operating system exit.                           *)
(*                                                                         *)
(* table maps the pid of every live process to its name, parent and rss.   *)
(***************************************************************************)
\* denied: name() and the enumeration work, ppid() and memory_info() raise
\* psutil.AccessDenied.
LiveProcess(name, ppid, rss, denied) ==
    [ name |-> name, ppid |-> ppid, rss |-> rss, denied |-> denied ]

\* The table once the process `gone` has exited (0: none has): its children
\* are handed to init.
exit_of(tbl, gone) ==
    [ p \in DOMAIN tbl \ {gone} |->
        IF tbl[p].ppid = gone
        THEN [ tbl[p] EXCEPT !.ppid = InitPid ]
        ELSE tbl[p] ]

\* A detail lookup of pid succeeds: it raises neither NoSuchProcess nor
\* AccessDenied.
accessible(tbl, pid) == pid \in DOMAIN tbl /\ ~ tbl[pid].denied

\* psutil.process_iter(['pid', 'name']), by ascending pid
process_iter(tbl) ==
    LET pids == AscSeq(DOMAIN tbl)
    IN  [ k \in DOMAIN pids |-> Enumerated(pids[k], tbl[pids[k]].name, "") ]

\* MemoryMonitor._find_root_processes: psutil.Process(pid) raises
\* NoSuchProcess for a pid that is gone, ppid() raises AccessDenied for one
\* that is denied, and the pid is skipped.
_find_root_processes(tbl, matching) ==
    SelectSeq(matching,
              LAMBDA pid : /\ accessible(tbl, pid)
                           /\ \/ tbl[pid].ppid \notin Range(matching)
                              \/ tbl[pid].ppid = InitPid)

RECURSIVE descendants(_, _, _)
\* parent_process.children(recursive=True)
descendants(tbl, frontier, seen) ==
    LET below == { p \in DOMAIN tbl : tbl[p].ppid \in frontier } \ seen
    IN  IF below = {} THEN seen
        ELSE descendants(tbl, below, seen \cup below)

Unknown == << "U", "n", "k", "n", "o", "w", "n" >>

\* The record of the except branch with the parent of the try branch.
_get_process_info_parented(tbl, pid) ==
    IF accessible(tbl, pid)
    THEN ProcessInfo(pid, tbl[pid].name, tbl[pid].rss, 2 * tbl[pid].rss, tbl[pid].ppid)
    ELSE ProcessInfo(pid, Unknown, 0, 0, InitPid)

\* MemoryMonitor._get_process_info; parent_pid None is 0.
_get_process_info(tbl, pid) ==
    IF accessible(tbl, pid)
    THEN ProcessInfo(pid, tbl[pid].name, tbl[pid].rss, 2 * tbl[pid].rss, tbl[pid].ppid)
    ELSE ProcessInfo(pid, Unknown, 0, 0, 0)

RECURSIVE collect(_, _, _)
collect(tbl, pids, reg) ==
    IF pids = <<>> THEN reg
    ELSE collect(tbl, Tail(pids),
                 DictSet(reg, Head(pids), _get_process_info(tbl, Head(pids))))

\* self.processes = {} and MemoryMonitor._collect_all_processes(root_pid).
\* tbl is the table when psutil.Process(root_pid) is made and the children
\* are listed, later the table when the details are looked up. A root gone
\* by then still gets its record, and children() raises NoSuchProcess.
_collect_all_processes(tbl, later, root_pid) ==
    IF root_pid \notin DOMAIN tbl
    THEN EmptyRegistry
    ELSE IF root_pid \notin DOMAIN later
    THEN collect(later, << root_pid >>, EmptyRegistry)
    ELSE collect(later, << root_pid >> \o AscSeq(descendants(tbl, {root_pid}, {})),
                 EmptyRegistry)

\* MemoryMonitor._build_process_tree: the code of build_process_tree
_build_process_tree(reg, root_pid) == build_process_tree(reg, root_pid)

\* The table as records, as one enumeration would deliver it.
TableRecords(tbl) ==
    LET pids == AscSeq(DOMAIN tbl)
    IN  [ k \in DOMAIN pids |->
            Record(pids[k], tbl[pids[k]].ppid, tbl[pids[k]].name, tbl[pids[k]].rss) ]

\* args.watch as argparse leaves it: absent, or an integer
WatchArgs == { <<>>, << -1 >>, << 0 >>, << 1 >>, << 2 >> }

\* if args.watch:
WatchGiven == watch # <<>> /\ watch[1] # 0

InitQwen ==
    /\ \E S \in SUBSET (2..(MaxProcs + 1)) :
         \E ppid \in [ S -> {InitPid} \cup S ], name \in [ S -> NameSet ] :
           /\ \A p \in S : ppid[p] < p
           /\ \E d \in S \cup {0} :
                table = [ p \in S |->
                            LiveProcess(name[p], ppid[p], RssByPid(p), p = d) ]
    /\ watch \in WatchArgs
    /\ exit_status = <<>>
    /\ snapshot = <<>>
    /\ process_name = Query
    /\ processes = EmptyRegistry
    /\ matching_pids = <<>>
    /\ root_pids = <<>>
    /\ i = 0
    /\ root_process = <<>>
    /\ all_rss_in_tree = <<>>
    /\ process_count = 0
    /\ total_memory = 0
    /\ output = <<>>
    /\ pc = "main"
    /\ ret = ""
    /\ calls = <<>>
    /\ args = [ op |-> "main" ]
    /\ result = <<>>
    /\ passes = 0

still == << all_rss_in_tree, calls, args, result, process_name, watch >>

\* main, lines 271-281 and 302-304: the watch interval is looked at, then
\* the first pass begins.
QwenMain ==
    /\ pc = "main"
    /\ IF WatchGiven /\ watch[1] <= 0
       THEN pc' = "exited" /\ exit_status' = << 1 >> /\ passes' = passes
       ELSE pc' = "find" /\ exit_status' = exit_status /\ passes' = 1
    /\ UNCHANGED << still, snapshot, processes, matching_pids, root_pids, i,
                    root_process, process_count, total_memory, output, ret, table >>

\* analyze_process_tree, lines 197-203
QwenFind ==
    /\ pc = "find"
    /\ snapshot' = TableRecords(table)
    /\ matching_pids' = _find_processes_by_name(process_iter(table), process_name)
    /\ IF matching_pids' = <<>>
       THEN pc' = "returned" /\ ret' = "False"
       ELSE pc' = "roots" /\ ret' = ret
    /\ UNCHANGED << still, processes, root_pids, i, root_process, process_count,
                    total_memory, output, table, passes, exit_status >>

\* analyze_process_tree, lines 205-212
QwenRoots ==
    /\ pc = "roots"
    /\ root_pids' = _find_root_processes(table, matching_pids)
    /\ IF root_pids' = <<>>
       THEN pc' = "returned" /\ ret' = "False" /\ i' = i
       ELSE pc' = "tree" /\ ret' = ret /\ i' = 1
    /\ UNCHANGED << still, snapshot, processes, matching_pids, root_process,
                    process_count, total_memory, output, table, passes, exit_status >>

\* analyze_process_tree, lines 215-257: the body of the loop for root_pids[i],
\* and return True after the last root. One of the listed processes may exit
\* between its listing and the lookup of its details.
QwenTree ==
    /\ pc = "tree"
    /\ \E gone \in {0} \cup ({root_pids[i]} \cup descendants(table, {root_pids[i]}, {})) :
       LET root_pid == root_pids[i]
           later == exit_of(table, gone)
           built == _build_process_tree(
                        _collect_all_processes(table, later, root_pid), root_pid)
       IN  /\ table' = later
           /\ processes' = built.processes
           /\ root_process' = built.result
           /\ IF built.result # <<>>
              THEN /\ process_count' = _count_processes(built.processes.info, root_pid)
                   /\ total_memory' = _calculate_total_memory(built.processes.info, root_pid)
                   /\ output' = Append(output,
                          [ root_pid |-> root_pid, built |-> TRUE,
                            nodes |-> tree_nodes(built.processes.info, root_pid),
                            process_count |-> process_count',
                            total_memory |-> total_memory' ])
              ELSE /\ process_count' = process_count
                   /\ total_memory' = total_memory
                   /\ output' = Append(output, [ root_pid |-> root_pid, built |-> FALSE ])
    /\ IF i < Len(root_pids)
       THEN pc' = "tree" /\ i' = i + 1 /\ ret' = ret
       ELSE pc' = "returned" /\ i' = i /\ ret' = "True"
    /\ UNCHANGED << still, snapshot, matching_pids, root_pids, passes,
                    exit_status >>

\* main, lines 302-305: after the single run.
QwenExit ==
    /\ pc = "returned"
    /\ ~ WatchGiven
    /\ pc' = "exited"
    /\ exit_status' = IF ret = "True" THEN << 0 >> ELSE << 1 >>
    /\ UNCHANGED << still, snapshot, processes, matching_pids, root_pids, i,
                    root_process, process_count, total_memory, output, ret, table,
                    passes >>

\* main, lines 283-301: the display is updated, the interval is slept, and
\* the next iteration analyses with a new MemoryMonitor.
QwenWatchAgain ==
    /\ pc = "returned"
    /\ WatchGiven
    /\ passes < MaxPasses
    /\ passes' = passes + 1
    /\ processes' = EmptyRegistry
    /\ matching_pids' = <<>>
    /\ root_pids' = <<>>
    /\ i' = 0
    /\ root_process' = <<>>
    /\ process_count' = 0
    /\ total_memory' = 0
    /\ output' = <<>>
    /\ ret' = ""
    /\ pc' = "find"
    /\ UNCHANGED << still, snapshot, table, exit_status >>

\* main, lines 307-309: Ctrl+C anywhere inside the try.
QwenInterrupt ==
    /\ pc \notin { "exited" }
    /\ pc' = "exited"
    /\ ret' = "KeyboardInterrupt"
    /\ exit_status' = << 1 >>
    /\ UNCHANGED << still, snapshot, processes, matching_pids, root_pids, i,
                    root_process, process_count, total_memory, output, table, passes >>

\* The operating system: a process exits, its children are handed to init.
ProcessExits ==
    /\ pc \notin { "main", "exited" }
    /\ \E gone \in DOMAIN table : table' = exit_of(table, gone)
    /\ UNCHANGED << still, snapshot, processes, matching_pids, root_pids, i,
                    root_process, process_count, total_memory, output, pc, ret,
                    passes, exit_status >>

NextQwen ==
    \/ QwenMain
    \/ QwenFind
    \/ QwenRoots
    \/ QwenTree
    \/ QwenExit
    \/ QwenWatchAgain
    \/ QwenInterrupt
    \/ ProcessExits

SpecQwen == InitQwen /\ [][NextQwen]_vars

\* C16: the program exits with status 0 only if at least one tree was built
\* and analysed, and with status 1 when nothing matches, when there is no
\* root, and on an interrupt; a run in which every root's tree fails to
\* build does not exit with 0.
C16_ExitStatus ==
    /\ exit_status = << 0 >> => \E k \in DOMAIN output : output[k].built
    /\ (pc = "exited" /\ ret \in { "False", "KeyboardInterrupt" })
          => exit_status = << 1 >>

\* C17: for every SECONDS <= 0 given to -t/--watch, 0 included, the program
\* exits with status 1 and runs no analysis pass; only SECONDS > 0 enters
\* the repeating loop.
C17_WatchInterval ==
    /\ (watch # <<>> /\ watch[1] <= 0)
          => /\ passes = 0
             /\ pc \in { "main", "exited" }
             /\ pc = "exited" => exit_status = << 1 >>
    /\ passes > 1 => (watch # <<>> /\ watch[1] > 0)

\* C18: no exception escapes the public operations and each of them
\* terminates, for every snapshot, also one where a pid is its own parent
\* or lies on a cycle of parents: analyze_process_tree and the operations
\* it is made of return a result, or an explicit empty, None or False.
C18_NoEscape ==
    /\ pc # "crashed"
    /\ ret \in { "", "True", "False" }

\* The pids below root in the enumerated snapshot.
SnapshotDescendants(root) == { p \in SnapshotPids : root \in Ancestors(p) }

\* C19: within one pass the process source is enumerated once, before the
\* roots are selected and the trees are built, and the matched set, the
\* roots and the tree of every root all come from that one snapshot,
\* whatever exits or is re-parented in the operating system meanwhile.
C19_OneSnapshot ==
    (matching_pids # <<>> /\ (pc = "tree" \/ ret \in { "True", "False" })) =>
        /\ root_pids =
              SelectSeq(matching_pids,
                        LAMBDA pid : \/ SnapshotParent(pid) \notin Range(matching_pids)
                                     \/ SnapshotParent(pid) = InitPid)
        /\ \A k \in DOMAIN output :
              /\ output[k].built
              /\ output[k].nodes =
                    {output[k].root_pid} \cup SnapshotDescendants(output[k].root_pid)

\* C20: "no root found" does not occur for well-formed data: when the pids
\* are unique, no pid is its own ancestor and at least one pid matched,
\* find_root_processes returns at least one root.
C20_SomeRoot ==
    ( /\ pc \in { "loop", "built", "ranked", "done", "crashed" }
      /\ matching_pids # <<>>
      /\ WellFormed
      /\ \A j, k \in DOMAIN snapshot : snapshot[j].pid = snapshot[k].pid => j = k )
        => root_pids # <<>>

\* A well-formed snapshot in which every matched pid but one has a matched
\* parent, and the root is not a child of init.
C20_Witness ==
    /\ pc = "loop"
    /\ WellFormed
    /\ Len(matching_pids) = MaxProcs
    /\ Len(root_pids) = 1
    /\ processes.info[root_pids[1]].parent_pid # InitPid
    /\ \A k \in DOMAIN matching_pids :
         matching_pids[k] # root_pids[1]
            => processes.info[matching_pids[k]].parent_pid \in Range(matching_pids)

\* The record _get_process_info gives for a pid it cannot look up.
ZeroedRecord(node, pid) ==
    /\ node.pid = pid
    /\ node.name = Unknown
    /\ node.rss = 0
    /\ node.vsz = 0
    /\ node.parent_pid = 0

\* One step of the program, as the claim constrains it.
C21_Step ==
    /\ (pc = "roots" /\ pc' \in { "tree", "returned" }) =>
          /\ \A pid \in Range(root_pids') : accessible(table, pid)
          /\ \A pid \in Range(matching_pids) :
                ( /\ accessible(table, pid)
                  /\ table[pid].ppid \notin Range(matching_pids) )
                    => pid \in Range(root_pids')
          /\ ret' \in { "", "False" }
    /\ (pc = "tree" /\ output' # output) =>
          /\ Len(output') = Len(output) + 1
          /\ output'[Len(output')].root_pid = root_pids[i]
          /\ output'[Len(output')].built = (root_pids[i] \in DOMAIN table)
          /\ root_pids[i] \notin DOMAIN table => processes' = EmptyRegistry
          /\ \A p \in Range(processes'.keys) :
                IF accessible(table', p)
                THEN /\ processes'.info[p].name = table'[p].name
                     /\ processes'.info[p].rss = table'[p].rss
                     /\ processes'.info[p].parent_pid = table'[p].ppid
                ELSE ZeroedRecord(processes'.info[p], p)
          /\ IF i < Len(root_pids)
             THEN pc' = "tree" /\ i' = i + 1
             ELSE pc' = "returned" /\ ret' = "True"
    /\ pc' = "returned" => ret' \in { "True", "False" }

\* C21: a process that vanishes or becomes inaccessible between the
\* enumeration and a detail lookup never aborts the run: _get_process_info
\* gives a zeroed record (rss 0, vsz 0, no parent) for it,
\* _find_root_processes and _collect_all_processes skip it, and the pass
\* goes on to every remaining root and returns normally.
C21_LookupFailures == [][C21_Step]_vars

\* The first root had exited before its tree was collected, the second
\* root's tree was analysed with a zeroed record in its registry, and the
\* pass returned True.
C21_Witness ==
    /\ pc = "returned"
    /\ ret = "True"
    /\ Len(output) = 2
    /\ ~ output[1].built
    /\ output[2].built
    /\ \E p \in Range(processes.keys) : ZeroedRecord(processes.info[p], p)


(***************************************************************************)
(* MemoryMonitor.format_memory and get_memory_color, and their twins of    *)
(* memon-qwen.                                                             *)
(***************************************************************************)
GB == 1024 * MB

\* str(n) of a natural number.
RECURSIVE decimal(_)
decimal(n) ==
    IF n < 10
    THEN << Digits[n + 1] >>
    ELSE decimal(n \div 10) \o << Digits[(n % 10) + 1] >>

\* x / unit in tenths as the format ".1f" rounds it: to the nearest tenth,
\* an exact half to the even tenth. unit is a power of two from 2^10 on and
\* x is below 2^53, so the float x / unit is the exact quotient. The rest is
\* split at 1024 to keep every product below 2^31.
tenths(x, unit) ==
    LET whole == x \div unit
        rest  == x % unit
        high  == unit \div 1024
        a     == 10 * (rest \div 1024) + (10 * (rest % 1024)) \div 1024
        b     == (10 * (rest % 1024)) % 1024
        digit == a \div high
        left  == (a % high) * 1024 + b
        down  == 10 * whole + digit
    IN  IF left > unit \div 2 \/ (left = unit \div 2 /\ down % 2 = 1)
        THEN down + 1
        ELSE down

\* f"{x:.1f}" of the value of t tenths.
fixed1(t) == decimal(t \div 10) \o << "." >> \o decimal(t % 10)

\* format_memory with gb > 1 for gb >= 1.
format_memory_strict(bytes_value) ==
    IF bytes_value = 0
    THEN << "0", "B" >>
    ELSE IF bytes_value > GB
         THEN fixed1(tenths(bytes_value, GB)) \o << "G", "B" >>
         ELSE fixed1(tenths(bytes_value, MB)) \o << "M", "B" >>

\* Lines 341-352. gb >= 1 is bytes_value / 2^20 / 1024 >= 1.
format_memory(bytes_value) ==
    IF bytes_value = 0
    THEN << "0", "B" >>
    ELSE IF bytes_value >= GB
         THEN fixed1(tenths(bytes_value, GB)) \o << "G", "B" >>
         ELSE fixed1(tenths(bytes_value, MB)) \o << "M", "B" >>

\* memon-qwen, lines 73-84: the same text.
_format_memory(bytes_value) == format_memory(bytes_value)

\* The sizes at which the unit, the colour or a rounding changes.
MemoryBoundaries ==
    { MB \div 4, 3 * (MB \div 4), MB, 10 * MB, 100 * MB, 500 * MB, GB,
      GB + GB \div 2 }

MemoryInputs ==
    { 0, 1, 1023, 52428, 52429, 104752742, GB + (GB - 1) }
        \cup { x + d : x \in MemoryBoundaries, d \in { -1, 0, 1 } }

Programs == { "memon", "memon-qwen" }

InitFormatMemory ==
    \E bytes_value \in MemoryInputs, program \in Programs :
      args = [ op |-> "format_memory", program |-> program,
               bytes_value |-> bytes_value ]

CallFormatMemory ==
    /\ args.op = "format_memory"
    /\ result = <<>>
    /\ result' = << IF args.program = "memon"
                    THEN format_memory(args.bytes_value)
                    ELSE _format_memory(args.bytes_value) >>
    /\ UNCHANGED << pass, args >>

\* The last two characters of a rendered size, and what stands before them.
UnitOf(s) == SubSeq(s, Len(s) - 1, Len(s))

NumberOf(s) == SubSeq(s, 1, Len(s) - 2)

\* Digits, a point, one digit.
OneDecimal(s) ==
    /\ Len(s) >= 3
    /\ isdigit(SubSeq(s, 1, Len(s) - 2))
    /\ s[Len(s) - 1] = "."
    /\ isdigit(<< s[Len(s)] >>)

\* The value of a number with one decimal, in tenths.
TenthsOf(s) ==
    10 * digits_value(SubSeq(s, 1, Len(s) - 2)) + digits_value(<< s[Len(s)] >>)

\* C22: format_memory(b) is "0B" iff b = 0; for b > 0 it is a number with
\* exactly one decimal digit followed by GB iff b >= 1024*1024*1024 and by MB
\* otherwise (1023 gives 0.0MB, 10 MiB gives 10.0MB, 1 GiB gives 1.0GB), and
\* among the inputs rendered in the same unit the rendered number is
\* non-decreasing in b.
C22_FormatMemory ==
    (args.op = "format_memory" /\ result # <<>>) =>
        LET b == args.bytes_value
            r == result[1]
        IN  /\ (r = << "0", "B" >>) <=> (b = 0)
            /\ b > 0 =>
                  /\ OneDecimal(NumberOf(r))
                  /\ UnitOf(r) = IF b >= GB THEN << "G", "B" >> ELSE << "M", "B" >>
            /\ b = 1023 => r = << "0", ".", "0", "M", "B" >>
            /\ b = 10 * MB => r = << "1", "0", ".", "0", "M", "B" >>
            /\ b = GB => r = << "1", ".", "0", "G", "B" >>
            /\ \A c \in MemoryInputs :
                  ( /\ 0 < c
                    /\ c <= b
                    /\ UnitOf(format_memory(c)) = UnitOf(r) )
                      => TenthsOf(NumberOf(format_memory(c))) <= TenthsOf(NumberOf(r))

\* One GiB has been rendered.
C22_Witness ==
    /\ args.op = "format_memory"
    /\ args.bytes_value = GB
    /\ result = << << "1", ".", "0", "G", "B" >> >>

\* An ANSI escape sequence: the escape character, "[", the code, "m".
sgr(code) == << "ESC", "[" >> \o code \o << "m" >>

\* Lines 16-56, the colours that get_memory_color uses.
Colors ==
    [ BLACK      |-> sgr(<< "3", "0" >>),
      RED        |-> sgr(<< "3", "1" >>),
      GREEN      |-> sgr(<< "3", "2" >>),
      YELLOW     |-> sgr(<< "3", "3" >>),
      MAGENTA    |-> sgr(<< "3", "5" >>),
      WHITE      |-> sgr(<< "3", "7" >>),
      BG_RED     |-> sgr(<< "4", "1" >>),
      BG_MAGENTA |-> sgr(<< "4", "5" >>),
      BG_CYAN    |-> sgr(<< "4", "6" >>),
      BOLD       |-> sgr(<< "1" >>) ]

\* get_memory_color with the second-highest flag read before the highest.
get_memory_color_second_first(no_color, bytes_value, is_max_memory, is_second_max_memory, is_third_max_memory) ==
    IF no_color THEN <<>>
    ELSE IF is_second_max_memory
         THEN Colors.BG_MAGENTA \o Colors.WHITE \o Colors.BOLD
    ELSE IF is_max_memory
         THEN Colors.BG_RED \o Colors.WHITE \o Colors.BOLD
    ELSE IF is_third_max_memory
         THEN Colors.BG_CYAN \o Colors.BLACK \o Colors.BOLD
    ELSE IF bytes_value < 10 * MB THEN Colors.GREEN
    ELSE IF bytes_value < 100 * MB THEN Colors.YELLOW
    ELSE IF bytes_value < 500 * MB THEN Colors.MAGENTA
    ELSE Colors.RED

\* Lines 354-380; no_color is self.no_color. mb < n is
\* bytes_value / 2^20 < n, a comparison of exact floats.
get_memory_color(no_color, bytes_value, is_max_memory, is_second_max_memory, is_third_max_memory) ==
    IF no_color THEN <<>>
    ELSE IF is_max_memory
         THEN Colors.BG_RED \o Colors.WHITE \o Colors.BOLD
    ELSE IF is_second_max_memory
         THEN Colors.BG_MAGENTA \o Colors.WHITE \o Colors.BOLD
    ELSE IF is_third_max_memory
         THEN Colors.BG_CYAN \o Colors.BLACK \o Colors.BOLD
    ELSE IF bytes_value < 10 * MB THEN Colors.GREEN
    ELSE IF bytes_value < 100 * MB THEN Colors.YELLOW
    ELSE IF bytes_value < 500 * MB THEN Colors.MAGENTA
    ELSE Colors.RED

\* memon-qwen, lines 86-100: the names of rich's colours.
_get_memory_color(no_color, bytes_value) ==
    IF no_color THEN <<>>
    ELSE IF bytes_value < 10 * MB THEN << "g", "r", "e", "e", "n" >>
    ELSE IF bytes_value < 100 * MB THEN << "y", "e", "l", "l", "o", "w" >>
    ELSE IF bytes_value < 500 * MB THEN << "m", "a", "g", "e", "n", "t", "a" >>
    ELSE << "r", "e", "d" >>

InitGetMemoryColor ==
    \E bytes_value \in MemoryInputs, no_color \in BOOLEAN :
      \/ \E flags \in [ 1..3 -> BOOLEAN ] :
           args = [ op |-> "get_memory_color", program |-> "memon",
                    no_color |-> no_color, bytes_value |-> bytes_value,
                    is_max_memory |-> flags[1],
                    is_second_max_memory |-> flags[2],
                    is_third_max_memory |-> flags[3] ]
      \/ args = [ op |-> "get_memory_color", program |-> "memon-qwen",
                  no_color |-> no_color, bytes_value |-> bytes_value ]

CallGetMemoryColor ==
    /\ args.op = "get_memory_color"
    /\ result = <<>>
    /\ result' = << IF args.program = "memon"
                    THEN get_memory_color(args.no_color, args.bytes_value,
                                          args.is_max_memory,
                                          args.is_second_max_memory,
                                          args.is_third_max_memory)
                    ELSE _get_memory_color(args.no_color, args.bytes_value) >>
    /\ UNCHANGED << pass, args >>

\* The size bands of the claim, numbered from the smallest sizes.
BandOf(b) ==
    IF b < 10 * MB THEN 1
    ELSE IF b < 100 * MB THEN 2
    ELSE IF b < 500 * MB THEN 3
    ELSE 4

\* Green, yellow, magenta, red as each program names them.
BandColours(program) ==
    IF program = "memon"
    THEN << Colors.GREEN, Colors.YELLOW, Colors.MAGENTA, Colors.RED >>
    ELSE << << "g", "r", "e", "e", "n" >>, << "y", "e", "l", "l", "o", "w" >>, << "m", "a", "g", "e", "n", "t", "a" >>, << "r", "e", "d" >> >>

\* The highlights of the nodes ranked first, second and third.
RankColours ==
    << Colors.BG_RED \o Colors.WHITE \o Colors.BOLD,
       Colors.BG_MAGENTA \o Colors.WHITE \o Colors.BOLD,
       Colors.BG_CYAN \o Colors.BLACK \o Colors.BOLD >>

\* The rank whose flag decides: the first set one, 0 if none is set.
RankOf(a) ==
    IF a.program # "memon" THEN 0
    ELSE IF a.is_max_memory THEN 1
    ELSE IF a.is_second_max_memory THEN 2
    ELSE IF a.is_third_max_memory THEN 3
    ELSE 0

\* C23: the memory colour depends only on the size band and the colour
\* switch: with no_color set it is the empty string for every value;
\* otherwise a value below 10 MiB is green, from 10 MiB to below 100 MiB
\* yellow, from 100 MiB to below 500 MiB magenta, and 500 MiB or more red; in
\* src/memon.py a set rank flag takes precedence over the size band, rank-1
\* over rank-2 over rank-3.
C23_MemoryColour ==
    (args.op = "get_memory_color" /\ result # <<>>) =>
        /\ args.no_color => result[1] = <<>>
        /\ (~ args.no_color /\ RankOf(args) = 0) =>
              result[1] = BandColours(args.program)[BandOf(args.bytes_value)]
        /\ (~ args.no_color /\ RankOf(args) > 0) =>
              /\ result[1] = RankColours[RankOf(args)]
              /\ \A k \in 1..4 : result[1] # BandColours(args.program)[k]
              /\ \A k \in 1..3 : k # RankOf(args) => result[1] # RankColours[k]

\* A value of the red band with the flags of rank 1 and rank 2 both set has
\* been coloured: neither its band nor the rank-2 flag decided.
C23_Witness ==
    /\ args.op = "get_memory_color"
    /\ args.program = "memon"
    /\ ~ args.no_color
    /\ args.bytes_value = 500 * MB
    /\ args.is_max_memory
    /\ args.is_second_max_memory
    /\ result = << RankColours[1] >>

(***************************************************************************)
(* The trees of a pass against the parent links of the registry.           *)
(***************************************************************************)
\* The pids met by following parent_pid links from pid through the entries
\* of a registry.
RECURSIVE ChainFrom(_, _, _)
ChainFrom(info, pid, seen) ==
    IF pid \notin DOMAIN info THEN seen
    ELSE LET parent == info[pid].parent_pid
         IN  IF parent \in seen THEN seen
             ELSE ChainFrom(info, parent, seen \cup {parent})

\* The parent_pid relation of a registry has no cycle.
Acyclic(info) == \A p \in DOMAIN info : p \notin ChainFrom(info, p, {})

\* r together with the registry pids whose chain of parent links reaches r.
WithDescendants(info, r) ==
    {r} \cup { p \in DOMAIN info : r \in ChainFrom(info, p, {}) }

\* C24: the tree analysed for a root contains every scanned process that
\* descends from it, matching the query or not: on a registry whose
\* parent_pid relation has no cycle, the nodes counted by _count_processes
\* on the built tree, and the nodes printed, are exactly the root and the
\* registry pids whose chain of parent_pid links reaches the root.
C24_WholeSubtree ==
    Acyclic(processes.info) =>
        /\ pc = "ranked" =>
              /\ TreeInHand = WithDescendants(processes.info, root_process[1])
              /\ process_count
                   = Cardinality(WithDescendants(processes.info, root_process[1]))
        /\ \A k \in DOMAIN output :
              output[k].built =>
                  /\ Range(LinePids(output[k]))
                       = WithDescendants(processes.info, output[k].root_pid)
                  /\ output[k].process_count
                       = Cardinality(WithDescendants(processes.info, output[k].root_pid))

\* A tree has been counted that holds a process not matching the query two
\* levels below its root.
C24_Witness ==
    /\ pc = "ranked"
    /\ Acyclic(processes.info)
    /\ \E p \in TreeInHand \ Range(matching_pids) :
         /\ processes.info[p].parent_pid # root_process[1]
         /\ processes.info[p].parent_pid \in TreeInHand

\* C25: no matched process is lost: on a registry whose parent_pid relation
\* has no cycle, every pid of matching_pids is a node of the tree built for
\* at least one root that find_root_processes returned, and of a tree the
\* pass has printed once it has returned.
C25_NoMatchLost ==
    (pc \in { "loop", "built", "ranked", "done" } /\ Acyclic(processes.info)) =>
        \A m \in Range(matching_pids) :
            /\ \E r \in Range(root_pids) :
                 m \in tree_nodes(build_process_tree(processes, r).processes.info, r)
            /\ (pc = "done" /\ ret = "True") =>
                 \E k \in DOMAIN output :
                    /\ output[k].built
                    /\ m \in Range(LinePids(output[k]))

\* A pass has returned in which one matched process was not a root and one
\* root had a scanned parent that does not match.
C25_Witness ==
    /\ pc = "done"
    /\ ret = "True"
    /\ Acyclic(processes.info)
    /\ \E m \in Range(matching_pids) \ Range(root_pids) : TRUE
    /\ \E m \in Range(root_pids) :
         /\ InRegistry(processes, processes.info[m].parent_pid)
         /\ processes.info[m].parent_pid \notin Range(matching_pids)

\* The nodes of a top-3 list, in its order.
TopNodes(top_processes) == [ j \in DOMAIN top_processes |-> top_processes[j].process ]

\* The list starts with a node flagged rank-1 and each of its nodes with
\* rss > 0 carries a rank flag.
TopAgreesWithFlags(top) ==
    /\ top # <<>>
    /\ processes.info[top[1]].is_max_memory
    /\ \A j \in DOMAIN top :
         processes.info[top[j]].rss > 0 => FlagCount(processes.info[top[j]]) >= 1

\* C26: the top-3 list and the rank flags of one tree agree: after a tree
\* has been ranked, the first node returned by
\* _collect_top_memory_processes_with_percentages is flagged rank-1 and
\* every returned node with rss > 0 carries one of the three rank flags.
C26_TopListFlagged ==
    /\ pc = "ranked" =>
          TopAgreesWithFlags(TopNodes(
              _collect_top_memory_processes_with_percentages(
                  processes.info, root_process[1], total_memory)))
    /\ \A k \in DOMAIN output :
          output[k].built => TopAgreesWithFlags(TopNodes(output[k].top_processes))

\* A tree has been ranked whose top-3 list has three nodes with rss > 0 and
\* leaves out a flagged node.
C26_Witness ==
    /\ pc = "ranked"
    /\ LET top == TopNodes(_collect_top_memory_processes_with_percentages(
                      processes.info, root_process[1], total_memory))
       IN  /\ Len(top) = 3
           /\ \A j \in DOMAIN top : processes.info[top[j]].rss > 0
           /\ \E p \in TreeInHand \ Range(top) : FlagCount(processes.info[p]) >= 1

\* C27: build_process_tree called with a root pid that is not in the
\* registry changes nothing: the key set, every node's fields and every
\* node's child list, as an earlier successful call left them, are as
\* before the call, and None is returned.
C27_AbsentRootNoChange ==
    (calls # <<>> /\ ~InRegistry(calls[1].before, calls[1].root_pid)) =>
        /\ calls[1].result = <<>>
        /\ processes.keys = calls[1].before.keys
        /\ DOMAIN processes.info = DOMAIN calls[1].before.info
        /\ \A p \in DOMAIN processes.info :
             processes.info[p] = calls[1].before.info[p]
        /\ ChildLists(processes) = ChildLists(calls[1].before)

\* A call for a pid that was not scanned, on a registry whose child lists an
\* earlier build has filled.
C27_Witness ==
    /\ calls # <<>>
    /\ ~InRegistry(calls[1].before, calls[1].root_pid)
    /\ root_process # <<>>
    /\ \E p \in DOMAIN processes.info : Len(processes.info[p].children) >= 2

(***************************************************************************)
(* SpecCalls: one direct call of one function on arguments drawn at the    *)
(* start.                                                                  *)
(***************************************************************************)
InitCalls ==
    /\ AtRest
    /\ result = <<>>
    /\ \/ InitNameMatches
       \/ InitFindProcessesByName
       \/ InitGetAllProcesses
       \/ InitExtractProcessName
       \/ InitFormatMemory
       \/ InitGetMemoryColor

NextCalls ==
    \/ CallNameMatches
    \/ CallFindProcessesByName
    \/ CallGetAllProcesses
    \/ CallExtractProcessName
    \/ CallFormatMemory
    \/ CallGetMemoryColor

SpecCalls == InitCalls /\ [][NextCalls]_vars

=============================================================================
